---- MODULE Spec2Model ----
(***************************************************************************)
(* Model of examples/sparse/compress.py: the statistics scanner sc_stats   *)
(* over a sparse-compressed byte stream, with its helpers read_n,          *)
(* sc_decode_header and sc_decode_block.                                   *)
(*                                                                         *)
(* A stream is a sequence of bytes (0..255) with a cursor pos, the number  *)
(* of bytes the iterator has handed out so far.  sc_stats is run on one    *)
(* input stream per behaviour: decode the header, then one step per call   *)
(* of sc_decode_block, then the check that the stream is exhausted.        *)
(***************************************************************************)
EXTENDS Integers, Sequences, FiniteSets, TLC

VARIABLES
    stream,   \* the bytes handed to sc_stats
    pos,      \* cursor of iter(stream): bytes consumed so far
    pc,       \* "call", "header", "blocks", "check", "done" (stats returned), "raised"
    err,      \* the exception that left sc_stats, "none" while running
    stats,    \* the stats dict: endian, nbits, blocks (the Counter)
    test      \* how the input was built: [kind, order, n, missing]

vars == <<stream, pos, pc, err, stats, test>>

(***************************************************************************)
(* Bounds of the input space.                                              *)
(***************************************************************************)
MaxLen == 3          \* arbitrary streams over ByteSample have at most this length
MaxBlocks == 2       \* well-formed sample streams hold at most this many blocks
MaxOnesBits == 2100  \* all-ones bit sequences of 0..MaxOnesBits bits
MaxNbits == 300      \* header round trip over every nbits in 0..MaxNbits (and NbitsEdge)

Min(a, b) == IF a < b THEN a ELSE b
Max(a, b) == IF a > b THEN a ELSE b

(***************************************************************************)
(* Python's integer operators on non-negative integers.                    *)
(***************************************************************************)
bit_and[a \in Nat, b \in Nat] ==
    IF a = 0 \/ b = 0 THEN 0
    ELSE (a % 2) * (b % 2) + 2 * bit_and[a \div 2, b \div 2]

bit_or[a \in Nat, b \in Nat] ==
    IF a = 0 THEN b
    ELSE IF b = 0 THEN a
    ELSE Max(a % 2, b % 2) + 2 * bit_or[a \div 2, b \div 2]

\* a & b and a | b
BitAnd(a, b) == bit_and[a, b]
BitOr(a, b) == bit_or[a, b]

\* b << s; a zero byte shifts to zero whatever s is
Shl(b, s) == IF b = 0 THEN 0 ELSE b * 2^s

(***************************************************************************)
(* read_n: i |= next(stream) << 8 * j for j in range(n).                   *)
(***************************************************************************)
\* the mutated accumulation: the byte is shifted by 4 * j
shift_in_nibble(i, b, j) == BitOr(i, Shl(b, 4 * j))

shift_in(i, b, j) == BitOr(i, Shl(b, 8 * j))

RECURSIVE read_n_loop(_, _, _, _, _)
read_n_loop(n, s, p, j, i) ==
    IF j = n
    THEN [raised |-> IF i < 0 THEN "ValueError: negative value" ELSE "none",
          val |-> i, pos |-> p]
    ELSE IF p >= Len(s)
    THEN [raised |-> "StopIteration", val |-> i, pos |-> p]
    ELSE read_n_loop(n, s, p + 1, j + 1, shift_in(i, s[p + 1], j))

read_n(n, s, p) == read_n_loop(n, s, p, 0, 0)

(***************************************************************************)
(* sc_decode_header                                                        *)
(***************************************************************************)
\* the mutated mask: only bits 6 and 7 are taken as reserved
header_reserved_c0(head) == BitAnd(head, 192)

header_reserved(head) == BitAnd(head, 224)

header_endian(head) == IF BitAnd(head, 16) # 0 THEN "big" ELSE "little"

header_length(head) == BitAnd(head, 15)

sc_decode_header(s, p) ==
    IF p >= Len(s)
    THEN [raised |-> "StopIteration", endian |-> "unset", nbits |-> 0, pos |-> p]
    ELSE LET head == s[p + 1] IN
         IF header_reserved(head) # 0
         THEN [raised |-> "ValueError: invalid header", endian |-> "unset",
               nbits |-> 0, pos |-> p + 1]
         ELSE LET r == read_n(header_length(head), s, p + 1) IN
              [raised |-> r.raised,
               endian |-> IF r.raised = "none" THEN header_endian(head) ELSE "unset",
               nbits |-> IF r.raised = "none" THEN r.val ELSE 0,
               pos |-> r.pos]

(***************************************************************************)
(* sc_decode_block                                                         *)
(***************************************************************************)
\* the mutated read: an exhausted stream reads as a stop byte (next(stream, 0))
read_head_default(s, p) ==
    IF p < Len(s)
    THEN [raised |-> "none", val |-> s[p + 1], pos |-> p + 1]
    ELSE [raised |-> "none", val |-> 0, pos |-> p]

\* the mutated read: the head is looked at and left in the stream
read_head_peek(s, p) ==
    IF p < Len(s)
    THEN [raised |-> "none", val |-> s[p + 1], pos |-> p]
    ELSE [raised |-> "StopIteration", val |-> 0, pos |-> p]

\* head = next(stream)
read_head(s, p) ==
    IF p < Len(s)
    THEN [raised |-> "none", val |-> s[p + 1], pos |-> p + 1]
    ELSE [raised |-> "StopIteration", val |-> 0, pos |-> p]

\* the mutated chain: the last branch starts at 0xc0
block_type_c0(head) ==
    IF head <= 128 THEN 0
    ELSE IF 160 <= head /\ head < 192 THEN 1
    ELSE IF 192 <= head /\ head <= 196 THEN head - 192
    ELSE -1

\* the if/elif chain on head: the block type n, or -1 where it raises ValueError
block_type(head) ==
    IF head <= 128 THEN 0
    ELSE IF 160 <= head /\ head < 192 THEN 1
    ELSE IF 194 <= head /\ head <= 196 THEN head - 192
    ELSE -1

\* the mutated size: n * k
block_size_no_max(n, k) == n * k

\* size = max(1, n) * k
block_size(n, k) == Max(1, n) * k

\* the mutated skip: the cursor stays where it was
consume_nothing(s, p, size) == p

\* next(islice(stream, size, size), None): skip size bytes, or what is left of them
consume(s, p, size) == Min(p + size, Len(s))

sc_decode_block(s, p, blocks) ==
    LET h == read_head(s, p) IN
    IF h.raised # "none"
    THEN [raised |-> h.raised, ret |-> FALSE, pos |-> h.pos, blocks |-> blocks]
    ELSE IF h.val = 0
    THEN [raised |-> "none", ret |-> FALSE, pos |-> h.pos, blocks |-> blocks]
    ELSE LET head == h.val
             n == block_type(head)
         IN
         IF n = -1
         THEN [raised |-> "ValueError: Invalid block head", ret |-> FALSE,
               pos |-> h.pos, blocks |-> blocks]
         ELSE IF n >= 2 /\ h.pos >= Len(s)
         THEN [raised |-> "StopIteration", ret |-> FALSE,
               pos |-> h.pos, blocks |-> blocks]
         ELSE LET k == IF n = 0 THEN head
                       ELSE IF n = 1 THEN head - 160
                       ELSE s[h.pos + 1]
                  q == IF n >= 2 THEN h.pos + 1 ELSE h.pos
              IN
              [raised |-> "none", ret |-> TRUE,
               pos |-> consume(s, q, block_size(n, k)),
               blocks |-> [blocks EXCEPT ![n] = @ + 1]]

(***************************************************************************)
(* sc_stats                                                                *)
(***************************************************************************)
\* the mutated check: the assert is gone and the scan always passes
stop_flag_always(s, p) == TRUE

\* stop: whether next(stream) after the loop raised StopIteration
stop_flag(s, p) == p >= Len(s)

NoBlocks == [n \in 0..4 |-> 0]

NoStats == [endian |-> "unset", nbits |-> 0, blocks |-> NoBlocks]

\* stream = iter(stream); endian, nbits = sc_decode_header(stream); stats = {...}
StatsHeader ==
    /\ pc = "header"
    /\ LET r == sc_decode_header(stream, pos) IN
       /\ pos' = r.pos
       /\ IF r.raised # "none"
          THEN /\ pc' = "raised"
               /\ err' = r.raised
               /\ stats' = stats
          ELSE /\ pc' = "blocks"
               /\ err' = err
               /\ stats' = [endian |-> r.endian, nbits |-> r.nbits, blocks |-> NoBlocks]
    /\ UNCHANGED <<stream, test>>

\* one turn of: while sc_decode_block(stream, stats): pass
StatsBlock ==
    /\ pc = "blocks"
    /\ LET r == sc_decode_block(stream, pos, stats.blocks) IN
       /\ pos' = r.pos
       /\ stats' = [stats EXCEPT !.blocks = r.blocks]
       /\ IF r.raised # "none"
          THEN pc' = "raised" /\ err' = r.raised
          ELSE pc' = (IF r.ret THEN "blocks" ELSE "check") /\ err' = err
    /\ UNCHANGED <<stream, test>>

\* try: next(stream) except StopIteration: stop = True; assert stop; return stats
StatsFinish ==
    /\ pc = "check"
    /\ pos' = Min(pos + 1, Len(stream))
    /\ IF stop_flag(stream, pos)
       THEN pc' = "done" /\ err' = err
       ELSE pc' = "raised" /\ err' = "AssertionError"
    /\ UNCHANGED <<stream, stats, test>>

(***************************************************************************)
(* The encoder side, which the script takes from bitarray.util: the header *)
(* and the all-ones body as the format description gives them.             *)
(***************************************************************************)
RECURSIVE ByteLen(_)
ByteLen(n) == IF n = 0 THEN 0 ELSE 1 + ByteLen(n \div 256)

EndianFlag(order) == IF order = "big" THEN 1 ELSE 0

\* (bit_order_flag << 4) | L, then L little-endian bytes of nbits
EncodeHeader(order, n) ==
    LET L == ByteLen(n) IN
    <<BitOr(Shl(EndianFlag(order), 4), L)>>
        \o [j \in 1..L |-> (n \div 256^(j - 1)) % 256]

\* the bytes of n one bits, the pad bits of the last byte zero
OnesBytes(order, n) ==
    LET full == n \div 8
        r == n % 8
    IN  [i \in 1..full |-> 255]
        \o (IF r = 0 THEN <<>>
            ELSE IF order = "little" THEN <<2^r - 1>> ELSE <<256 - 2^(8 - r)>>)

\* raw blocks of at most 128 bytes each
RECURSIVE RawBlocks(_)
RawBlocks(bytes) ==
    IF Len(bytes) = 0 THEN <<>>
    ELSE LET k == Min(128, Len(bytes)) IN
         <<k>> \o SubSeq(bytes, 1, k) \o RawBlocks(SubSeq(bytes, k + 1, Len(bytes)))

EncodeOnes(order, n) == EncodeHeader(order, n) \o RawBlocks(OnesBytes(order, n)) \o <<0>>

(***************************************************************************)
(* The inputs sc_stats is run on.                                          *)
(***************************************************************************)
Orders == {"little", "big"}

Fill(len, b) == [i \in 1..len |-> b]

Input(s, kind, order, n, missing) ==
    [stream |-> s, test |-> [kind |-> kind, order |-> order, n |-> n, missing |-> missing]]

\* arbitrary short streams over bytes of every class of header and block head
ByteSample == {0, 1, 2, 17, 129, 161, 194, 255}

InputsAny ==
    {Input(s, "any", "none", 0, 0) : s \in UNION {[1..l -> ByteSample] : l \in 0..MaxLen}}

\* every first byte, followed by all, or all but one, of the length bytes it announces
LengthBytes(L, pat) ==
    [j \in 1..L |-> IF pat = 0 THEN 0
                    ELSE IF pat = 1 THEN (IF j <= 2 THEN j ELSE 0)
                    ELSE IF j <= 3 THEN 255 ELSE IF j = 4 THEN 127 ELSE 0]

InputsFirst ==
    {Input(<<h>> \o LengthBytes(h % 16, pat) \o suffix, "first", "none", 0, 0)
        : h \in 0..255, pat \in 0..2, suffix \in {<<>>, <<0>>, <<3, 255>>}}
    \cup {Input(<<h>> \o SubSeq(LengthBytes(h % 16, pat), 1, (h % 16) - 1),
                "first", "none", 0, 1)
        : h \in 0..255, pat \in 0..2}

\* every block head after an empty header, with every count byte where one is
\* read, and the declared payload whole (and followed by suffix) or short
DeclaredSize(h, k) ==
    IF 1 <= h /\ h <= 128 THEN h
    ELSE IF 160 <= h /\ h <= 191 THEN h - 160
    ELSE IF 194 <= h /\ h <= 196 THEN (h - 192) * k
    ELSE 0

HeadStream(h, k, short, suffix) ==
    <<0, h>> \o (IF 194 <= h /\ h <= 196 THEN <<k>> ELSE <<>>)
        \o Fill(DeclaredSize(h, k) - short, 255) \o suffix

InputsHead ==
    LET one == {<<h, 0>> : h \in 0..255} \cup ((194..196) \X {0, 1, 2, 255})
        counted == (194..196) \X (0..255)
    IN
    {Input(HeadStream(x[1], x[2], 0, suffix), "head", "little", 0, 0)
        : x \in one, suffix \in {<<>>, <<0>>, <<0, 0>>, <<1, 7, 0>>}}
    \cup {Input(HeadStream(x[1], x[2], short, <<>>), "head", "little", 0, short)
        : x \in one, short \in 1..2}
    \cup {Input(HeadStream(x[1], x[2], 0, <<0>>), "head", "little", 0, 0) : x \in counted}
    \cup {Input(HeadStream(x[1], x[2], 1, <<>>), "head", "little", 0, 1) : x \in counted}
    \cup {Input(<<0, h>>, "head", "little", 0, 1) : h \in 194..196}

\* well-formed streams (header, blocks, stop byte) and every prefix of each
SampleHeaders == {<<0>>, <<17, 9>>, <<2, 0, 1>>}

\* blocks of every type, their payloads holding bytes that would read as a stop
\* byte, as a block head or as a reserved head
SampleBlocks ==
    { <<1, 0>>, <<3, 0, 194, 255>>,
      <<160>>, <<162, 0, 1>>,
      <<194, 0>>, <<194, 1, 0, 0>>,
      <<196, 1, 255, 0, 160, 3>> }

RECURSIVE BlockSeqs(_)
BlockSeqs(m) ==
    IF m = 0 THEN {<<>>}
    ELSE LET prev == BlockSeqs(m - 1) IN
         prev \cup {p \o b : p \in prev, b \in SampleBlocks}

WellFormed == {h \o body \o <<0>> : h \in SampleHeaders, body \in BlockSeqs(MaxBlocks)}

InputsWF ==
    UNION {{Input(SubSeq(w, 1, c), "wf", "none", 0, Len(w) - c) : c \in 0..Len(w)}
            : w \in WellFormed}

\* the encodings of all-ones bit sequences
InputsOnes == {Input(EncodeOnes(o, n), "ones", o, n, 0) : o \in Orders, n \in 0..MaxOnesBits}

\* encoded headers, each followed by a stop byte
NbitsEdge == {255, 256, 65535, 65536, 16777215, 16777216, 2147483647}

InputsHdr ==
    {Input(EncodeHeader(o, n) \o <<0>>, "hdr", o, n, 0)
        : o \in Orders, n \in (0..MaxNbits) \cup NbitsEdge}

Inputs == InputsAny \cup InputsFirst \cup InputsHead \cup InputsWF \cup InputsOnes \cup InputsHdr

NoTest == [kind |-> "none", order |-> "none", n |-> 0, missing |-> 0]

\* before the call: no stream has been passed yet
Init ==
    /\ stream = <<>>
    /\ test = NoTest
    /\ pos = 0
    /\ pc = "call"
    /\ err = "none"
    /\ stats = NoStats

\* a caller passes one of the inputs: sc_stats(stream)
StatsCall ==
    /\ pc = "call"
    /\ \E inp \in Inputs : stream' = inp.stream /\ test' = inp.test
    /\ pc' = "header"
    /\ UNCHANGED <<pos, err, stats>>

Next == StatsCall \/ StatsHeader \/ StatsBlock \/ StatsFinish

Spec == Init /\ [][Next]_vars

\* the scan is a single sequential call: a step that can be taken is taken
FairSpec == Spec /\ WF_vars(Next)

TypeOK ==
    /\ pos \in 0..Len(stream)
    /\ pc \in {"call", "header", "blocks", "check", "done", "raised"}
    /\ \A i \in 1..Len(stream) : stream[i] \in 0..255
    /\ \A n \in 0..4 : stats.blocks[n] >= 0

(***************************************************************************)
(* Properties                                                              *)
(***************************************************************************)
BlockTotal ==
    stats.blocks[0] + stats.blocks[1] + stats.blocks[2] + stats.blocks[3] + stats.blocks[4]

\* the step tallies exactly one block of type t and no other
Tallies(t) == stats' = [stats EXCEPT !.blocks[t] = @ + 1]

\* C1: a head in 1..0x80 is a type 0 block of head payload bytes, a head in
\* 0xA0..0xBF a type 1 block of head - 0xA0 bytes, a head in 0xC2..0xC4 followed
\* by a count byte k a type head - 0xC0 block of (head - 0xC0) * k bytes; the
\* step adds one to that type's counter alone and, when the payload is all
\* there, leaves the cursor right behind it and stays in the loop.
C1_BlockHeads ==
    [][(pc = "blocks" /\ pos < Len(stream)) =>
        LET h == stream[pos + 1]
            rest == Len(stream) - (pos + 1)
        IN  /\ (1 <= h /\ h <= 128) =>
                /\ Tallies(0)
                /\ rest >= h => (pos' = pos + 1 + h /\ pc' = "blocks")
            /\ (160 <= h /\ h < 192) =>
                /\ Tallies(1)
                /\ rest >= h - 160 => (pos' = pos + 1 + (h - 160) /\ pc' = "blocks")
            /\ (194 <= h /\ h <= 196 /\ rest >= 1) =>
                LET k == stream[pos + 2] IN
                /\ Tallies(h - 192)
                /\ rest - 1 >= (h - 192) * k =>
                      (pos' = pos + 2 + (h - 192) * k /\ pc' = "blocks")
    ]_vars

\* a type 4 block of 255 values has been skipped whole
C1_Witness ==
    /\ test.kind = "head" /\ Len(stream) >= 3 /\ stream[2] = 196 /\ stream[3] = 255
    /\ pc = "blocks" /\ stats.blocks[4] = 1 /\ pos = 3 + 4 * 255

\* C2: a block whose declared payload is longer than what is left of the
\* stream makes the block step fail; it is never skipped in part and tallied.
C2_ShortPayloadFails ==
    [][(pc = "blocks" /\ pos < Len(stream)) =>
        LET h == stream[pos + 1]
            rest == Len(stream) - (pos + 1)
        IN  /\ (1 <= h /\ h <= 128 /\ rest < h) => pc' = "raised"
            /\ (160 <= h /\ h < 192 /\ rest < h - 160) => pc' = "raised"
            /\ (194 <= h /\ h <= 196 /\ rest >= 1
                  /\ rest - 1 < (h - 192) * stream[pos + 2]) => pc' = "raised"
    ]_vars

\* C3: the scan of a proper prefix of a well-formed stream never returns
\* stats; it ends in the error of the exhausted stream.
C3_CutNeverReturns ==
    (test.kind = "wf" /\ test.missing > 0) =>
        /\ pc # "done"
        /\ pc = "raised" => err = "StopIteration"

\* a cut stream whose two blocks were tallied before the scan failed
C3_Witness ==
    /\ test.kind = "wf" /\ test.missing > 0
    /\ pc = "raised" /\ BlockTotal = 2 /\ pos = Len(stream)

\* C4: the stop byte ends the loop without a tally; the check after it fails
\* when a byte follows and returns the stats when none does.
C4_StopThenExhausted ==
    [][/\ (pc = "blocks" /\ pos < Len(stream) /\ stream[pos + 1] = 0) =>
            (pc' = "check" /\ stats' = stats /\ pos' = pos + 1)
       /\ pc = "check" =>
            /\ stats' = stats
            /\ pos < Len(stream) => (pc' = "raised" /\ err' = "AssertionError")
            /\ pos = Len(stream) => (pc' = "done" /\ err' = "none")
    ]_vars

\* bytes followed the stop byte and the scan failed
C4_Witness ==
    /\ pc = "raised" /\ err = "AssertionError"
    /\ pos >= 2 /\ stream[pos - 1] = 0

ReservedHead(h) == (129 <= h /\ h <= 159) \/ h = 192 \/ h = 193 \/ (197 <= h /\ h <= 255)

\* C5: exactly the nonzero heads 0x81..0x9F, 0xC0, 0xC1 and 0xC5..0xFF fail as
\* invalid block heads, with nothing tallied and nothing read after the head.
C5_ReservedHeads ==
    [][(pc = "blocks" /\ pos < Len(stream) /\ stream[pos + 1] # 0) =>
        /\ ReservedHead(stream[pos + 1]) <=>
              (pc' = "raised" /\ err' = "ValueError: Invalid block head")
        /\ ReservedHead(stream[pos + 1]) => (stats' = stats /\ pos' = pos + 1)
    ]_vars

\* head 0xC1 was rejected with the byte after it unread
C5_Witness ==
    /\ pc = "raised" /\ err = "ValueError: Invalid block head"
    /\ pos = 2 /\ stream[2] = 193 /\ Len(stream) > 2 /\ BlockTotal = 0

\* C6: the header fails as invalid exactly when its first byte is 0x20 or
\* more, with only that byte read; a first byte below 0x20 followed by its
\* L = head mod 16 length bytes is decoded, 1 + L bytes read.
C6_HeaderBits ==
    [][(pc = "header" /\ pos < Len(stream)) =>
        LET h == stream[pos + 1]
            rest == Len(stream) - (pos + 1)
        IN  /\ h >= 32 <=> (pc' = "raised" /\ err' = "ValueError: invalid header")
            /\ h >= 32 => pos' = pos + 1
            /\ (h < 32 /\ rest >= h % 16) => (pc' = "blocks" /\ pos' = pos + 1 + (h % 16))
    ]_vars

\* first byte 0x1F, and its fifteen length bytes, decoded
C6_Witness ==
    /\ test.kind = "first" /\ stream[1] = 31
    /\ pc = "blocks" /\ pos = 16 /\ stats.endian = "big"

RECURSIVE LittleEndian(_)
LittleEndian(bytes) ==
    IF bytes = <<>> THEN 0 ELSE Head(bytes) + 256 * LittleEndian(Tail(bytes))

\* C7: decoding an encoded header gives back the bit order and nbits, nbits
\* being the little-endian value of the length bytes.
C7_HeaderRoundTrip ==
    (test.kind \in {"hdr", "ones"} /\ pc # "header") =>
        /\ stats.endian = test.order
        /\ stats.nbits = test.n
        /\ stats.nbits = LittleEndian(SubSeq(stream, 2, 1 + (stream[1] % 16)))

\* the header of 2^31 - 1 bits, big-endian, went round
C7_Witness ==
    /\ test.kind = "hdr" /\ test.order = "big" /\ test.n = 2147483647
    /\ pc = "done" /\ stats.nbits = 2147483647 /\ stats.endian = "big"

\* C8: the scan of the encoding of n one bits returns nbits = n and
\* (n + 1023) \div 1024 blocks, all of type 0, none over 128 bytes.
C8_AllOnes ==
    test.kind = "ones" =>
        /\ pc # "raised"
        /\ (pc = "blocks" /\ pos < Len(stream)) => stream[pos + 1] <= 128
        /\ pc = "done" =>
            /\ stats.nbits = test.n
            /\ stats.blocks[0] = (test.n + 1023) \div 1024
            /\ \A t \in 1..4 : stats.blocks[t] = 0

\* 2049 one bits scanned: three raw blocks
C8_Witness ==
    /\ test.kind = "ones" /\ test.n = 2049
    /\ pc = "done" /\ stats.blocks[0] = 3

\* the wire layout read strictly from byte i on: the number of blocks when
\* s[i..] is whole blocks and then one stop byte ending the stream, else -1
RECURSIVE LayoutBlocks(_, _)
LayoutBlocks(s, i) ==
    IF i > Len(s) THEN -1
    ELSE IF s[i] = 0 THEN (IF i = Len(s) THEN 0 ELSE -1)
    ELSE LET h == s[i]
             lead == IF 194 <= h /\ h <= 196 THEN 2 ELSE 1
         IN
         IF ReservedHead(h) \/ i + lead - 1 > Len(s) THEN -1
         ELSE LET size == IF h <= 128 THEN h
                          ELSE IF h <= 191 THEN h - 160
                          ELSE (h - 192) * s[i + 1]
                  r == IF i + lead + size > Len(s) THEN -1
                       ELSE LayoutBlocks(s, i + lead + size)
              IN  IF r = -1 THEN -1 ELSE r + 1

\* C9: when the scan returns stats, the stream is exactly the header, the
\* tallied blocks with their whole payloads, and one stop byte, and the
\* tallies add up to the number of those blocks.
C9_StatsMeansWholeStream ==
    pc = "done" =>
        /\ pos = Len(stream)
        /\ LayoutBlocks(stream, 2 + (stream[1] % 16)) = BlockTotal

\* a well-formed stream of two blocks, one of type 4, was scanned
C9_Witness ==
    /\ pc = "done" /\ test.kind = "wf" /\ BlockTotal = 2 /\ stats.blocks[4] = 1

\* C10: the cursor never moves back, a turn of the block loop that stays in
\* the loop moves it forward, the loop is left once the stream is exhausted,
\* and the scan ends, with stats or with an error.
C10_Terminates ==
    /\ [][/\ pos' >= pos
          /\ (pc = "blocks" /\ pc' = "blocks") => pos' > pos
          /\ (pc = "blocks" /\ pos = Len(stream)) => pc' = "raised"
       ]_vars
    /\ <>(pc \in {"done", "raised"})

\* the block loop ran into the end of the stream and the scan ended
C10_Witness ==
    /\ pc = "raised" /\ err = "StopIteration" /\ BlockTotal >= 1 /\ pos = Len(stream)

====
